---------------------------- MODULE Spec2Model ----------------------------
(***************************************************************************)
(* lua::Push (Shared/mods/deathmatch/logic/lua/LuaBasic.h): the overload   *)
(* set that marshals host values onto the Lua stack.                       *)
(*                                                                         *)
(* A lua_State is a record                                                 *)
(*    stack  : the operand stack, bottom first                             *)
(*    heap   : the tables allocated so far, a table's id is its index      *)
(*    exc    : the exception in flight ("none" when the call is running    *)
(*             or has returned normally)                                   *)
(*    stores : for every store a composite Push has made, the table that   *)
(*             Push created and the stack slot its index designated        *)
(*    own    : the host's ownership record of every script entity: its     *)
(*             shared_ptr use count and whether a unique_ptr holds it      *)
(* Every overload is an operator from (lua_State, host value) to the       *)
(* lua_State it leaves; an operator applied to a state with an exception   *)
(* in flight leaves it alone, which is how the throw unwinds the callers.  *)
(*                                                                         *)
(* lua_Number is a double.  The model keeps a number as a count of halves, *)
(* so 1.5 is 3 and the int 1 converts to 2.                                *)
(***************************************************************************)
EXTENDS Integers, Sequences, FiniteSets, TLC

VARIABLES L, L0, arg, pc

vars == <<L, L0, arg, pc>>

----------------------------------------------------------------------------
(* Bounds of the checked universe of host values.                          *)

\* longest array, vector, tuple or map whose elements are not containers
MaxLen == 3
\* longest array, vector or tuple whose elements are containers themselves
MaxOuter == 2

----------------------------------------------------------------------------
(* Lua values.                                                             *)

Nil == [t |-> "nil"]
Boolean(b) == [t |-> "boolean", b |-> b]
Number(h) == [t |-> "number", n |-> h]
String(s) == [t |-> "string", s |-> s]
Table(id) == [t |-> "table", id |-> id]
UserData(obj) == [t |-> "userdata", obj |-> obj]
VectorValue(c) == [t |-> "vector", c |-> c]
MatrixValue(c) == [t |-> "matrix", c |-> c]

\* int -> lua_Number (the implicit conversion at lua_pushnumber(L, value))
IntToNumber(i) == 2 * i
\* float/double -> lua_Number: the value itself, already in halves
RealToNumber(h) == h
\* lua_Number -> int (the implicit conversion at lua_rawseti(L, -2, i++)):
\* truncation toward zero
NumberToInt(h) == IF h >= 0 THEN h \div 2 ELSE -((-h) \div 2)

EmptyTable == <<>>

Live(S) == S.exc = "none"

Raise(S, e) == [S EXCEPT !.exc = e]

top(S) == Len(S.stack)

\* index2adr for a relative (negative) index: -1 is the top slot
AbsIndex(S, idx) == top(S) + idx + 1

PushValue(S, v) == IF Live(S) THEN [S EXCEPT !.stack = Append(@, v)] ELSE S

PopN(S, n) == [S EXCEPT !.stack = SubSeq(@, 1, Len(@) - n)]

\* t[k] = v without metamethods; storing nil removes the key
RawSet(tbl, k, v) ==
    IF v = Nil
    THEN [x \in (DOMAIN tbl) \ {k} |-> tbl[x]]
    ELSE [x \in (DOMAIN tbl) \cup {k} |-> IF x = k THEN v ELSE tbl[x]]

\* t[k], nil when the key is absent
RawGet(tbl, k) == IF k \in DOMAIN tbl THEN tbl[k] ELSE Nil

lua_pushnumber(S, h) == PushValue(S, Number(h))

lua_pushboolean(S, b) == PushValue(S, Boolean(b))

lua_pushnil(S) == PushValue(S, Nil)

lua_pushlstring(S, data, len) == PushValue(S, String(SubSeq(data, 1, len)))

lua_pushvector(S, c) == PushValue(S, VectorValue(c))

lua_pushmatrix(S, c) == PushValue(S, MatrixValue(c))

\* one new empty table on top of the stack; narr and nrec are size hints
lua_createtable(S, narr, nrec) ==
    IF Live(S)
    THEN [S EXCEPT !.heap = Append(@, EmptyTable),
                   !.stack = Append(@, Table(Len(S.heap) + 1))]
    ELSE S

lua_newtable(S) == lua_createtable(S, 0, 0)

\* t[n] = v where t is the value at idx and v the top slot; pops v
lua_rawseti(S, idx, n) ==
    IF ~Live(S) THEN S
    ELSE LET a == AbsIndex(S, idx) IN
         IF a < 1 \/ a > top(S) \/ top(S) < 1 THEN Raise(S, "lua_error")
         ELSE LET t == S.stack[a] IN
              IF t.t # "table" THEN Raise(S, "lua_error")
              ELSE PopN([S EXCEPT !.heap[t.id] =
                            RawSet(@, Number(IntToNumber(n)), S.stack[top(S)])], 1)

\* t[k] = v where t is the value at idx, v the top slot and k the slot below
\* it; pops both.  A nil key is a Lua error ("table index is nil").
lua_settable(S, idx) ==
    IF ~Live(S) THEN S
    ELSE LET a == AbsIndex(S, idx) IN
         IF a < 1 \/ a > top(S) \/ top(S) < 2 THEN Raise(S, "lua_error")
         ELSE LET t == S.stack[a]
                  k == S.stack[top(S) - 1]
                  v == S.stack[top(S)] IN
              IF t.t # "table" \/ k = Nil THEN Raise(S, "lua_error")
              ELSE PopN([S EXCEPT !.heap[t.id] = RawSet(@, k, v)], 2)

----------------------------------------------------------------------------
(* Host values.  kind is the static type that selects the overload.        *)

IntVal(i) == [kind |-> "int", i |-> i]
UnsignedVal(u) == [kind |-> "unsigned", u |-> u]
FloatVal(h) == [kind |-> "float", f |-> h]
DoubleVal(h) == [kind |-> "double", d |-> h]
BoolVal(b) == [kind |-> "bool", b |-> b]
NullptrVal == [kind |-> "nullptr_t"]
StringVal(chars) == [kind |-> "string", chars |-> chars]
Vector2DVal(c) == [kind |-> "CVector2D", c |-> c]
Vector3DVal(c) == [kind |-> "CVector", c |-> c]
Vector4DVal(c) == [kind |-> "CVector4D", c |-> c]
MatrixVal(c) == [kind |-> "CMatrix", c |-> c]
EnumVal(e) == [kind |-> "enum", e |-> e]
\* p is the entity's identity, 0 the null pointer
PtrVal(p) == [kind |-> "ptr", p |-> p]
SharedPtrVal(p) == [kind |-> "shared_ptr", p |-> p]
UniquePtrVal(p) == [kind |-> "unique_ptr", p |-> p]
\* a CLuaArgument: its type tag and the payload of every tag
ArgumentVal(type, b, n, chars, ud, items) ==
    [kind |-> "CLuaArgument", type |-> type, b |-> b, n |-> n,
     chars |-> chars, ud |-> ud, items |-> items]
ArgumentsVal(items) == [kind |-> "CLuaArguments", items |-> items]
VariantVal(index, held) == [kind |-> "variant", index |-> index, held |-> held]
NullOpt == [kind |-> "optional", has_value |-> FALSE]
Some(v) == [kind |-> "optional", has_value |-> TRUE, held |-> v]
ArrayVal(elems) == [kind |-> "array", elems |-> elems]
VectorVal(elems) == [kind |-> "vector", elems |-> elems]
\* an unordered_map: its entries <<key, value>> in the order the iteration
\* visits them
MapVal(entries) == [kind |-> "unordered_map", entries |-> entries]
TupleVal(elems) == [kind |-> "tuple", elems |-> elems]

----------------------------------------------------------------------------
(* Collaborators of the header that live elsewhere in the repository.      *)

\* lua_pushelement: the handle of the entity, nil for a null pointer
lua_pushelement(S, p) ==
    IF p = 0 THEN lua_pushnil(S) ELSE PushValue(S, UserData(p))

\* EnumToString: the registered name of the enumerator
EnumToString(e) == StringVal(<<101, 48 + e>>)

\* CLuaArgument::GetType
GetType(a) == a.type

\* CLuaArgument::Push: one slot holding the value of the tag; a LUA_TNONE
\* argument pushes nothing.  A table argument holds scalar arguments.
ArgumentValue(a) ==
    CASE a.type = "LUA_TNIL" -> Nil
      [] a.type = "LUA_TBOOLEAN" -> Boolean(a.b)
      [] a.type = "LUA_TNUMBER" -> Number(a.n)
      [] a.type = "LUA_TSTRING" -> String(a.chars)
      [] a.type = "LUA_TLIGHTUSERDATA" -> UserData(a.ud)
      [] a.type = "LUA_TUSERDATA" -> UserData(a.ud)

RECURSIVE PushItems(_, _, _)
PushItems(S, items, i) ==
    IF i > Len(items) THEN S
    ELSE PushItems(lua_rawseti(PushValue(S, ArgumentValue(items[i])), -2, i),
                   items, i + 1)

\* CLuaArguments::PushAsTable: one indexed table of the arguments
PushAsTable(S, args) == PushItems(lua_newtable(S), args.items, 1)

CLuaArgument_Push(S, a) ==
    CASE a.type = "LUA_TNONE" -> S
      [] a.type = "LUA_TTABLE" -> PushItems(lua_newtable(S), a.items, 1)
      [] OTHER -> PushValue(S, ArgumentValue(a))

\* std::shared_ptr<T>::get, std::unique_ptr<T>::get: const observers
get(ptr) == ptr.p

----------------------------------------------------------------------------
(* The overloads of lua::Push.                                             *)

PushInt(S, value) == lua_pushnumber(S, IntToNumber(value.i))

PushUnsigned(S, value) == lua_pushnumber(S, IntToNumber(value.u))

PushFloat(S, value) == lua_pushnumber(S, RealToNumber(value.f))

PushDouble(S, value) == lua_pushnumber(S, RealToNumber(value.d))

PushBool(S, value) == lua_pushboolean(S, value.b)

PushNullptr(S, value) == lua_pushnil(S)

PushString(S, value) == lua_pushlstring(S, value.chars, Len(value.chars))

\* the overload without its guard
PushCLuaArgument_NoGuard(S, a) == CLuaArgument_Push(S, a)

PushCLuaArgument(S, a) ==
    IF GetType(a) = "LUA_TNONE"
    THEN Raise(S, "logic_error")
    ELSE CLuaArgument_Push(S, a)

PushCLuaArguments(S, args) == PushAsTable(S, args)

PushCVector2D(S, value) == lua_pushvector(S, value.c)

PushCVector(S, value) == lua_pushvector(S, value.c)

PushCVector4D(S, value) == lua_pushvector(S, value.c)

PushCMatrix(S, value) == lua_pushmatrix(S, value.c)

PushEnum(S, val) == PushString(S, EnumToString(val.e))

PushPtr(S, val) == lua_pushelement(S, val.p)

PushSharedPtr(S, ptr) == lua_pushelement(S, get(ptr))

\* ptr.release() in place of ptr.get()
PushUniquePtr_Release(S, ptr) ==
    lua_pushelement(
        IF ptr.p = 0 THEN S ELSE [S EXCEPT !.own[ptr.p].unique = FALSE], ptr.p)

PushUniquePtr(S, ptr) == lua_pushelement(S, get(ptr))

\* the forward declaration of the overloads that call Push
RECURSIVE Push(_, _)

\* std::visit: the visitor runs on the alternative the variant holds
visit(val) == val.held

\* a visitor that runs twice
PushVariant_Twice(S, val) == Push(Push(S, visit(val)), visit(val))

PushVariant(S, val) == Push(S, visit(val))

\* an empty optional pushed as false
PushOptional_False(S, val) ==
    IF val.has_value
    THEN Push(S, val.held)
    ELSE lua_pushboolean(S, FALSE)

PushOptional(S, val) ==
    IF val.has_value
    THEN Push(S, val.held)
    ELSE Push(S, NullptrVal)

\* the table a composite Push has just created: the top slot after
\* lua_createtable / lua_newtable
Created(S) == IF Live(S) THEN S.stack[top(S)] ELSE Nil

\* notes, just before a store, the slot the store's index designates
Noted(S, own, idx) ==
    IF ~Live(S) THEN S
    ELSE LET a == AbsIndex(S, idx) IN
         [S EXCEPT !.stores = @ \cup
            {[own |-> own, slot |-> a,
              target |-> IF a >= 1 /\ a <= top(S) THEN S.stack[a] ELSE Nil]}]

\* for (const auto& v : val) { Push(L, v); lua_rawseti(L, -2, i++); }
\* with lua_Number i; k is the iterator's position
RECURSIVE ArrayLoop(_, _, _, _, _)
\* the store aimed one slot too low
ArrayLoop_Minus3(S, elems, k, i, own) ==
    IF k > Len(elems) \/ ~Live(S) THEN S
    ELSE ArrayLoop(
            lua_rawseti(Noted(Push(S, elems[k]), own, -3), -3, NumberToInt(i)),
            elems, k + 1, i + 2, own)

ArrayLoop(S, elems, k, i, own) ==
    IF k > Len(elems) \/ ~Live(S) THEN S
    ELSE ArrayLoop(
            lua_rawseti(Noted(Push(S, elems[k]), own, -2), -2, NumberToInt(i)),
            elems, k + 1, i + 2, own)

PushArray(S, val) ==
    LET S1 == lua_createtable(S, Len(val.elems), 0)
    IN  ArrayLoop(S1, val.elems, 1, IntToNumber(1), Created(S1))

\* for (const auto& v : val) { Push(L, i++); Push(L, v); lua_settable(L, -3); }
\* with int i
RECURSIVE VectorLoop(_, _, _, _, _)
\* the loop without its lua_settable
VectorLoop_NoStore(S, elems, k, i, own) ==
    IF k > Len(elems) \/ ~Live(S) THEN S
    ELSE VectorLoop(Push(Push(S, IntVal(i)), elems[k]), elems, k + 1, i + 1, own)

VectorLoop(S, elems, k, i, own) ==
    IF k > Len(elems) \/ ~Live(S) THEN S
    ELSE VectorLoop(
            lua_settable(Noted(Push(Push(S, IntVal(i)), elems[k]), own, -3), -3),
            elems, k + 1, i + 1, own)

\* the keys counted from 0, as the host counts
PushVector_ZeroBased(S, val) ==
    LET S1 == lua_newtable(S)
    IN  VectorLoop(S1, val.elems, 1, 0, Created(S1))

PushVector(S, val) ==
    LET S1 == lua_newtable(S)
    IN  VectorLoop(S1, val.elems, 1, 1, Created(S1))

\* for (const auto& [k, v] : val) { Push(L, k); Push(L, v); lua_settable(L, -3); }
RECURSIVE MapLoop(_, _, _, _)
\* the value pushed before the key
MapLoop_Swapped(S, entries, k, own) ==
    IF k > Len(entries) \/ ~Live(S) THEN S
    ELSE MapLoop(
            lua_settable(
                Noted(Push(Push(S, entries[k][2]), entries[k][1]), own, -3), -3),
            entries, k + 1, own)

MapLoop(S, entries, k, own) ==
    IF k > Len(entries) \/ ~Live(S) THEN S
    ELSE MapLoop(
            lua_settable(
                Noted(Push(Push(S, entries[k][1]), entries[k][2]), own, -3), -3),
            entries, k + 1, own)

PushMap(S, val) ==
    LET S1 == lua_newtable(S)
    IN  MapLoop(S1, val.entries, 1, Created(S1))

\* (PushTable(L, key, values), ...) with
\* PushTable = { Push(L, value); lua_rawseti(L, -2, key++); } and int key
RECURSIVE PushTable(_, _, _, _, _)
\* the store aimed one slot too low
PushTable_Minus3(S, values, k, key, own) ==
    IF k > Len(values) \/ ~Live(S) THEN S
    ELSE PushTable(
            lua_rawseti(Noted(Push(S, values[k]), own, -3), -3, key),
            values, k + 1, key + 1, own)

PushTable(S, values, k, key, own) ==
    IF k > Len(values) \/ ~Live(S) THEN S
    ELSE PushTable(
            lua_rawseti(Noted(Push(S, values[k]), own, -2), -2, key),
            values, k + 1, key + 1, own)

\* the key never advanced
PushTuple_SameKey(S, tuple) ==
    LET S1 == lua_createtable(S, Len(tuple.elems), 0)
        RECURSIVE Loop(_, _)
        Loop(T, k) ==
            IF k > Len(tuple.elems) \/ ~Live(T) THEN T
            ELSE Loop(lua_rawseti(Push(T, tuple.elems[k]), -2, 1), k + 1)
    IN  Loop(S1, 1)

PushTuple(S, tuple) ==
    LET S1 == lua_createtable(S, Len(tuple.elems), 0)
    IN  PushTable(S1, tuple.elems, 1, 1, Created(S1))

\* overload resolution: the static type of the argument selects the overload
Push(S, v) ==
    IF ~Live(S) THEN S
    ELSE CASE v.kind = "int" -> PushInt(S, v)
           [] v.kind = "unsigned" -> PushUnsigned(S, v)
           [] v.kind = "float" -> PushFloat(S, v)
           [] v.kind = "double" -> PushDouble(S, v)
           [] v.kind = "bool" -> PushBool(S, v)
           [] v.kind = "nullptr_t" -> PushNullptr(S, v)
           [] v.kind = "string" -> PushString(S, v)
           [] v.kind = "CLuaArgument" -> PushCLuaArgument(S, v)
           [] v.kind = "CLuaArguments" -> PushCLuaArguments(S, v)
           [] v.kind = "CVector2D" -> PushCVector2D(S, v)
           [] v.kind = "CVector" -> PushCVector(S, v)
           [] v.kind = "CVector4D" -> PushCVector4D(S, v)
           [] v.kind = "CMatrix" -> PushCMatrix(S, v)
           [] v.kind = "enum" -> PushEnum(S, v)
           [] v.kind = "ptr" -> PushPtr(S, v)
           [] v.kind = "shared_ptr" -> PushSharedPtr(S, v)
           [] v.kind = "unique_ptr" -> PushUniquePtr(S, v)
           [] v.kind = "variant" -> PushVariant(S, v)
           [] v.kind = "optional" -> PushOptional(S, v)
           [] v.kind = "array" -> PushArray(S, v)
           [] v.kind = "vector" -> PushVector(S, v)
           [] v.kind = "unordered_map" -> PushMap(S, v)
           [] v.kind = "tuple" -> PushTuple(S, v)

----------------------------------------------------------------------------
(* The host values the calls are made with.  A set named T_x or K_x is the *)
(* set of values of one static type; a container's elements all come from  *)
(* one of them, a tuple's from any.                                        *)

Seqs(T, n) == UNION {[1..m -> T] : m \in 0..n}

\* sequences of <<key, value>> entries with pairwise different keys
Entries(K, V, n) ==
    {e \in Seqs(K \X V, n) :
        \A i, j \in 1..Len(e) : e[i][1] = e[j][1] => i = j}

NoItems == <<>>
Scalar(type, b, n, chars, ud) == ArgumentVal(type, b, n, chars, ud, NoItems)

ScalarArguments ==
    {Scalar("LUA_TNIL", FALSE, 0, <<>>, 0),
     Scalar("LUA_TBOOLEAN", TRUE, 0, <<>>, 0),
     Scalar("LUA_TNUMBER", FALSE, 3, <<>>, 0),
     Scalar("LUA_TSTRING", FALSE, 0, <<97, 0>>, 0),
     Scalar("LUA_TLIGHTUSERDATA", FALSE, 0, <<>>, 1),
     Scalar("LUA_TUSERDATA", FALSE, 0, <<>>, 2)}

NoneArgument == Scalar("LUA_TNONE", FALSE, 0, <<>>, 0)

TableArguments ==
    {ArgumentVal("LUA_TTABLE", FALSE, 0, <<>>, 0, items) :
        items \in Seqs({Scalar("LUA_TNUMBER", FALSE, 3, <<>>, 0),
                        Scalar("LUA_TBOOLEAN", TRUE, 0, <<>>, 0)}, MaxLen)}

T_int == {IntVal(1), IntVal(2)}
T_string == {StringVal(<<97>>), StringVal(<<97, 0>>)}
T_enum == {EnumVal(0), EnumVal(1)}
T_ptr == {PtrVal(0), PtrVal(1)}
T_shared == {SharedPtrVal(0), SharedPtrVal(1)}
T_optint == {NullOpt, Some(IntVal(1))}
T_arg == {NoneArgument, Scalar("LUA_TNUMBER", FALSE, 3, <<>>, 0)}
\* std::variant<int, float>
T_variant == {VariantVal(0, IntVal(1)), VariantVal(1, FloatVal(2)),
              VariantVal(1, FloatVal(3))}

ElemTypes == {T_int, T_string, T_enum, T_ptr, T_shared, T_optint, T_arg, T_variant}

KeyTypes == {T_int, T_string, T_ptr, T_optint, T_variant}

ValueTypes == {T_int, T_optint, T_arg}

TupleElems ==
    {IntVal(7), FloatVal(3), BoolVal(TRUE), NullOpt, Some(IntVal(2)),
     NoneArgument, StringVal(<<97>>)}

FlatSeqs == UNION {Seqs(T, MaxLen) : T \in ElemTypes}

FlatEntries == UNION {Entries(K, V, MaxLen) : K \in KeyTypes, V \in ValueTypes}

\* the types of the containers that are elements of other containers
T_vecint ==
    {VectorVal(<<>>), VectorVal(<<IntVal(1)>>), VectorVal(<<IntVal(1), IntVal(2)>>)}
T_vecarg ==
    {VectorVal(<<>>), VectorVal(<<NoneArgument>>),
     VectorVal(<<Scalar("LUA_TNUMBER", FALSE, 3, <<>>, 0)>>),
     VectorVal(<<Scalar("LUA_TNUMBER", FALSE, 3, <<>>, 0), NoneArgument>>)}
T_arrint == {ArrayVal(<<IntVal(1), IntVal(2)>>), ArrayVal(<<IntVal(2), IntVal(1)>>)}
T_tuple == {TupleVal(<<IntVal(7), NullOpt>>), TupleVal(<<IntVal(7), NoneArgument>>)}
T_mapint ==
    {MapVal(<<>>), MapVal(<< <<StringVal(<<97>>), IntVal(1)>> >>)}
T_optvec == {NullOpt, Some(VectorVal(<<>>)), Some(VectorVal(<<IntVal(1)>>))}

NestedTypes == {T_vecint, T_vecarg, T_arrint, T_tuple, T_mapint, T_optvec}

NestedSeqs == UNION {Seqs(T, MaxOuter) : T \in NestedTypes}

NestedEntries == UNION {Entries(T_string, V, MaxOuter) : V \in {T_vecint, T_vecarg}}

IntArgs == {IntVal(i) : i \in -2..3}
UnsignedArgs == {UnsignedVal(u) : u \in 0..3}
FloatArgs == {FloatVal(h) : h \in -3..3}
DoubleArgs == {DoubleVal(h) : h \in -3..3}
BoolArgs == {BoolVal(b) : b \in BOOLEAN}
StringArgs == {StringVal(c) : c \in {<<>>, <<97>>, <<97, 0, 98>>}}
ArgumentArgs == ScalarArguments \cup TableArguments \cup {NoneArgument}
ArgumentsArgs == {ArgumentsVal(items) : items \in Seqs(ScalarArguments, 1)}
Vector2DArgs == {Vector2DVal(<<1, 2>>)}
Vector3DArgs == {Vector3DVal(<<1, 2, 3>>)}
Vector4DArgs == {Vector4DVal(<<1, 2, 3, 4>>)}
MatrixArgs == {MatrixVal(<<1, 0, 0, 1>>)}
EnumArgs == {EnumVal(e) : e \in 0..2}
PtrArgs == {PtrVal(p) : p \in 0..2}
SharedPtrArgs == {SharedPtrVal(p) : p \in 0..1}
UniquePtrArgs == {UniquePtrVal(p) : p \in {0, 2}}
ArrayArgs == {ArrayVal(s) : s \in FlatSeqs \cup NestedSeqs}
VectorArgs ==
    {VectorVal(s) : s \in FlatSeqs \cup NestedSeqs}
    \cup {VectorVal(<<VectorVal(<<v>>)>>) : v \in T_vecint \cup T_vecarg}
MapArgs == {MapVal(e) : e \in FlatEntries \cup NestedEntries}
TupleArgs == {TupleVal(s) : s \in Seqs(TupleElems, MaxLen) \cup NestedSeqs}
OptionalArgs ==
    {NullOpt} \cup
    {Some(v) : v \in T_int \cup T_string \cup T_arg \cup T_ptr \cup T_variant
                     \cup T_vecint \cup T_vecarg \cup T_tuple \cup T_mapint
                     \cup {NullOpt, Some(IntVal(1))}}
VariantArgs ==
    T_variant \cup
    {VariantVal(2, v) : v \in T_string \cup T_arg \cup T_optint \cup T_vecint
                              \cup T_vecarg \cup T_tuple}

----------------------------------------------------------------------------
(* The states a call starts from: what earlier pushes of the same Lua      *)
(* function have left on the stack, and the entities the host owns.        *)

Owned == [p \in 1..2 |->
             IF p = 1 THEN [use_count |-> 2, unique |-> FALSE]
                      ELSE [use_count |-> 0, unique |-> TRUE]]

Fresh(stack, heap) ==
    [stack |-> stack, heap |-> heap, exc |-> "none", stores |-> {}, own |-> Owned]

InitialStates ==
    {Fresh(<<>>, <<>>),
     Fresh(<<Number(14), Table(1)>>,
           <<[k \in {Number(2)} |-> String(<<120>>)]>>)}

Init ==
    /\ L \in InitialStates
    /\ L0 = L
    /\ arg = NullptrVal
    /\ pc = "idle"

\* a call of lua::Push(L, v) that leaves the state R
Call(v, R) ==
    /\ pc = "idle"
    /\ arg' = v
    /\ L0' = L
    /\ L' = R
    /\ pc' = IF Live(R) THEN "returned" ELSE "thrown"

CallInt == \E v \in IntArgs : Call(v, PushInt(L, v))
CallUnsigned == \E v \in UnsignedArgs : Call(v, PushUnsigned(L, v))
CallFloat == \E v \in FloatArgs : Call(v, PushFloat(L, v))
CallDouble == \E v \in DoubleArgs : Call(v, PushDouble(L, v))
CallBool == \E v \in BoolArgs : Call(v, PushBool(L, v))
CallNullptr == Call(NullptrVal, PushNullptr(L, NullptrVal))
CallString == \E v \in StringArgs : Call(v, PushString(L, v))
CallCLuaArgument == \E v \in ArgumentArgs : Call(v, PushCLuaArgument(L, v))
CallCLuaArguments == \E v \in ArgumentsArgs : Call(v, PushCLuaArguments(L, v))
CallCVector2D == \E v \in Vector2DArgs : Call(v, PushCVector2D(L, v))
CallCVector == \E v \in Vector3DArgs : Call(v, PushCVector(L, v))
CallCVector4D == \E v \in Vector4DArgs : Call(v, PushCVector4D(L, v))
CallCMatrix == \E v \in MatrixArgs : Call(v, PushCMatrix(L, v))
CallEnum == \E v \in EnumArgs : Call(v, PushEnum(L, v))
CallPtr == \E v \in PtrArgs : Call(v, PushPtr(L, v))
CallSharedPtr == \E v \in SharedPtrArgs : Call(v, PushSharedPtr(L, v))
CallUniquePtr == \E v \in UniquePtrArgs : Call(v, PushUniquePtr(L, v))
CallVariant == \E v \in VariantArgs : Call(v, PushVariant(L, v))
CallOptional == \E v \in OptionalArgs : Call(v, PushOptional(L, v))
CallArray == \E v \in ArrayArgs : Call(v, PushArray(L, v))
CallVector == \E v \in VectorArgs : Call(v, PushVector(L, v))
CallMap == \E v \in MapArgs : Call(v, PushMap(L, v))
CallTuple == \E v \in TupleArgs : Call(v, PushTuple(L, v))

Next ==
    \/ CallInt \/ CallUnsigned \/ CallFloat \/ CallDouble \/ CallBool
    \/ CallNullptr \/ CallString \/ CallCLuaArgument \/ CallCLuaArguments
    \/ CallCVector2D \/ CallCVector \/ CallCVector4D \/ CallCMatrix
    \/ CallEnum \/ CallPtr \/ CallSharedPtr \/ CallUniquePtr
    \/ CallVariant \/ CallOptional \/ CallArray \/ CallVector \/ CallMap
    \/ CallTuple

Spec == Init /\ [][Next]_vars

----------------------------------------------------------------------------
(* What the claims speak of.                                               *)

Returned == pc = "returned"

Thrown == pc = "thrown"

Composite == {"array", "vector", "unordered_map", "tuple"}

\* the slot a completed call has pushed
Result == L.stack[top(L)]

\* the table a completed composite call has pushed
ResultTable == L.heap[Result.id]

\* a Lua value with every table replaced by its contents
RECURSIVE Deep(_, _)
Deep(heap, v) ==
    IF v.t = "table"
    THEN [t |-> "table",
          pairs |-> {<<Deep(heap, k), Deep(heap, heap[v.id][k])>> :
                        k \in DOMAIN heap[v.id]}]
    ELSE v

\* the foreign value that pushing e directly on the starting state produces
Foreign(e) ==
    LET R == Push(L0, e) IN Deep(R.heap, R.stack[top(R)])

\* the foreign value the table holds at key k
Held(k) == Deep(L.heap, RawGet(ResultTable, k))

\* the Lua number of the integer j
Index(j) == Number(2 * j)

\* the lengths Lua may report for a table: its borders
Borders(tbl) ==
    {j \in 0..Cardinality(DOMAIN tbl) :
        /\ j = 0 \/ Index(j) \in DOMAIN tbl
        /\ Index(j + 1) \notin DOMAIN tbl}

\* the call pushed one new table and left the rest of the stack alone
OneNewTable ==
    /\ L.stack = Append(L0.stack, Table(Len(L0.heap) + 1))
    /\ \A id \in 1..Len(L0.heap) : L.heap[id] = L0.heap[id]

----------------------------------------------------------------------------
\* C1: every completed call of lua::Push, whatever the type and the nesting
\* of its argument, leaves the stack exactly one slot deeper than it found it.
Inv_C1_StackBalance ==
    Returned => Len(L.stack) = Len(L0.stack) + 1

Wit_C1_NestedVector ==
    /\ Returned
    /\ arg.kind = "vector"
    /\ Len(arg.elems) = 2
    /\ arg.elems[2].kind = "vector"
    /\ Len(arg.elems[2].elems) = 2
    /\ Len(L0.stack) = 2

\* C2: a CLuaArgument tagged LUA_TNONE makes the call throw std::logic_error
\* before CLuaArgument::Push runs, so the stack is as it was; any other tag
\* makes the call return with exactly the effect of CLuaArgument::Push.
Inv_C2_FatalGuard ==
    (pc # "idle" /\ arg.kind = "CLuaArgument") =>
        IF arg.type = "LUA_TNONE"
        THEN /\ Thrown
             /\ L.exc = "logic_error"
             /\ L.stack = L0.stack
             /\ L.heap = L0.heap
        ELSE /\ Returned
             /\ L = CLuaArgument_Push(L0, arg)
             /\ Len(L.stack) = Len(L0.stack) + 1

Wit_C2_NoneThrown ==
    /\ Thrown
    /\ arg.kind = "CLuaArgument"
    /\ arg.type = "LUA_TNONE"
    /\ Len(L0.stack) = 2

\* C3 as claimed: when a composite Push is aborted by a LUA_TNONE element,
\* the stack is what it was before the call.
Cex_C3_StackRestored ==
    (Thrown /\ L.exc = "logic_error" /\ arg.kind \in Composite) =>
        L.stack = L0.stack

\* C3 as amended: the abort leaves every slot and every table that existed
\* before the call as it was, but it does not take back what the call has
\* pushed: the table under construction stays on the stack, and above it the
\* pending key of a vector or an unordered_map.
Inv_C3_AbortLeavesTable ==
    (Thrown /\ L.exc = "logic_error" /\ arg.kind \in Composite) =>
        /\ Len(L.stack) > Len(L0.stack)
        /\ SubSeq(L.stack, 1, Len(L0.stack)) = L0.stack
        /\ \A id \in 1..Len(L0.heap) : L.heap[id] = L0.heap[id]
        /\ L.stack[Len(L0.stack) + 1] = Table(Len(L0.heap) + 1)
        /\ arg.kind \in {"vector", "unordered_map"} =>
              /\ Len(L.stack) >= Len(L0.stack) + 2
              /\ L.stack[Len(L0.stack) + 2].t # "table"

Wit_C3_PartialVector ==
    /\ Thrown
    /\ L.exc = "logic_error"
    /\ arg.kind = "vector"
    /\ Len(arg.elems) = 2
    /\ arg.elems[2] = NoneArgument
    /\ L.stack = L0.stack \o <<Table(Len(L0.heap) + 1), Index(2)>>
    /\ L.heap[Len(L0.heap) + 1] # EmptyTable

\* C4: a completed Push of a vector or an array of n elements pushes one new
\* table that holds at index i + 1 the foreign value of element i, for
\* i = 0..n-1, and holds nothing else; for n = 0 the table is empty, of
\* length 0, and is not nil.
Inv_C4_IndexTranslation ==
    (Returned /\ arg.kind \in {"vector", "array"}) =>
        LET n == Len(arg.elems) IN
        /\ OneNewTable
        /\ DOMAIN ResultTable \subseteq {Index(i + 1) : i \in 0..(n - 1)}
        /\ \A i \in 0..(n - 1) : Held(Index(i + 1)) = Foreign(arg.elems[i + 1])
        /\ n = 0 => ResultTable = EmptyTable /\ Borders(ResultTable) = {0}

Wit_C4_TwoElements ==
    /\ Returned
    /\ arg.kind = "vector"
    /\ arg.elems = <<IntVal(2), IntVal(1)>>
    /\ RawGet(ResultTable, Index(1)) = Number(4)
    /\ RawGet(ResultTable, Index(2)) = Number(2)

\* C5 as claimed: a completed Push of a tuple of n elements pushes one table
\* of length exactly n that holds at index i the foreign value of element i,
\* also when elements push nil.
Cex_C5_LengthIsArity ==
    (Returned /\ arg.kind = "tuple") =>
        LET n == Len(arg.elems) IN
        /\ OneNewTable
        /\ Borders(ResultTable) = {n}
        /\ \A i \in 1..n : Held(Index(i)) = Foreign(arg.elems[i])

\* C5 as amended: the table holds at index i (1..n) the foreign value of
\* element i, an element that pushes nil leaving its index absent, and holds
\* no other key; its length is exactly n when no element pushes nil, and n is
\* not a length of it when the last element pushes nil.
Inv_C5_TupleArity ==
    (Returned /\ arg.kind = "tuple") =>
        LET n == Len(arg.elems) IN
        /\ OneNewTable
        /\ DOMAIN ResultTable \subseteq {Index(i) : i \in 1..n}
        /\ \A i \in 1..n : Held(Index(i)) = Foreign(arg.elems[i])
        /\ (\A i \in 1..n : Foreign(arg.elems[i]) # Nil) =>
              Borders(ResultTable) = {n}
        /\ (n > 0 /\ Foreign(arg.elems[n]) = Nil) => n \notin Borders(ResultTable)

Wit_C5_TrailingNil ==
    /\ Returned
    /\ arg.kind = "tuple"
    /\ arg.elems = <<IntVal(7), NullOpt>>
    /\ Borders(ResultTable) = {1}

\* the iteration orders of the entries e
Orders(e) ==
    {[i \in 1..Len(e) |-> e[q[i]]] :
        q \in {f \in [1..Len(e) -> 1..Len(e)] :
                  \A i, j \in 1..Len(e) : f[i] = f[j] => i = j}}

\* the table is the same whatever order the map is iterated in
OrderIndependent ==
    \A e \in Orders(arg.entries) :
        LET R == Push(L0, MapVal(e)) IN
        /\ Live(R)
        /\ Deep(R.heap, R.stack[top(R)]) = Deep(L.heap, Result)

\* C6 as claimed: a completed Push of an unordered_map pushes one table that
\* holds for every entry (k, v) the foreign value of v at the foreign value
\* of k, holds no other key, and is the same for every iteration order.
Cex_C6_MapExact ==
    (Returned /\ arg.kind = "unordered_map") =>
        /\ OneNewTable
        /\ DOMAIN ResultTable \subseteq
              {Foreign(arg.entries[i][1]) : i \in 1..Len(arg.entries)}
        /\ \A i \in 1..Len(arg.entries) :
              Held(Foreign(arg.entries[i][1])) = Foreign(arg.entries[i][2])
        /\ OrderIndependent

\* different keys of the map push different foreign keys
DistinctForeignKeys ==
    \A i, j \in 1..Len(arg.entries) :
        Foreign(arg.entries[i][1]) = Foreign(arg.entries[j][1]) => i = j

\* C6 as amended: the table holds no key but the foreign keys of the entries,
\* and at each of them the foreign value of the entry iterated last among
\* those that push that key; when different keys push different foreign keys
\* it holds every entry and is the same for every iteration order.
Inv_C6_MapExact ==
    (Returned /\ arg.kind = "unordered_map") =>
        /\ OneNewTable
        /\ DOMAIN ResultTable \subseteq
              {Foreign(arg.entries[i][1]) : i \in 1..Len(arg.entries)}
        /\ \A i \in 1..Len(arg.entries) :
              (\A j \in (i + 1)..Len(arg.entries) :
                  Foreign(arg.entries[j][1]) # Foreign(arg.entries[i][1]))
              => Held(Foreign(arg.entries[i][1])) = Foreign(arg.entries[i][2])
        /\ DistinctForeignKeys => OrderIndependent

Wit_C6_TwoEntries ==
    /\ Returned
    /\ arg.kind = "unordered_map"
    /\ Len(arg.entries) = 2
    /\ DistinctForeignKeys
    /\ Cardinality(DOMAIN ResultTable) = 2
    /\ arg.entries[1][1].kind = "string"

\* C7: pushing an optional that holds nothing pushes exactly one nil slot;
\* pushing an optional that holds v leaves the state that pushing v directly
\* on the same starting state leaves.
Inv_C7_Optional ==
    (pc # "idle" /\ arg.kind = "optional") =>
        IF arg.has_value
        THEN L = Push(L0, arg.held)
        ELSE /\ Returned
             /\ L.stack = Append(L0.stack, Nil)
             /\ L.heap = L0.heap

Wit_C7_HeldVector ==
    /\ Returned
    /\ arg.kind = "optional"
    /\ arg.has_value
    /\ arg.held.kind = "vector"
    /\ Len(arg.held.elems) = 2

Inv_C10_StoreTarget ==
    pc # "idle" =>
        /\ \A e \in L.stores :
              /\ e.target = e.own
              /\ e.own.t = "table"
              /\ e.own.id > Len(L0.heap)
              /\ e.slot > Len(L0.stack)
        /\ Returned =>
              /\ SubSeq(L.stack, 1, Len(L0.stack)) = L0.stack
              /\ \A id \in 1..Len(L0.heap) : L.heap[id] = L0.heap[id]

Wit_C10_NestedStores ==
    /\ Returned
    /\ arg.kind = "array"
    /\ Len(arg.elems) = 2
    /\ arg.elems[1].kind = "vector"
    /\ Len(L0.stack) = 2
    /\ Cardinality({e.own : e \in L.stores}) = 3

=============================================================================
